---- MODULE Spec2Model ----
(***************************************************************************)
(* Instruction processor of the premint airdrop program                   *)
(* (src/src/processor.rs).  The ledger holds the accounts; every step is  *)
(* one call of process_instruction on a caller-chosen instruction payload *)
(* and a caller-chosen list of accounts.                                  *)
(***************************************************************************)
EXTENDS Integers, Sequences, FiniteSets, TLC

VARIABLES
    ledger,            \* key -> [lamports, owner, data]: the persisted accounts
    instruction_data,  \* payload of the last call
    accounts,          \* the AccountInfo list of the last call (as seen at entry)
    result,            \* what the last call returned
    trace              \* the calls the last call made, in order

vars == <<ledger, instruction_data, accounts, result, trace>>

---------------------------------------------------------------------------
(* Bounds of the model *)

MaxAmount == 2
MaxPrice == 2
MaxBump == 2
RentMinimum == 2
FeePayerFunds == 5

---------------------------------------------------------------------------
(* Addresses.  Plain addresses are the small naturals below; derived      *)
(* addresses lie above them.                                              *)

ProgramId == 0
SystemProgramId == 1
RentSysvarId == 2
Config == 3
Malformed == 4
Wallet == 5
User2 == 6
FeePayer == 7
FakeConfig == 8
OtherProgramId == 9

NumPlain == OtherProgramId + 1
Plain == 0 .. (NumPlain - 1)

Amounts == 1 .. MaxAmount
Prices == 1 .. MaxPrice
Prefixes == {0}
Symbols == {7}
Bumps == 0 .. MaxBump

---------------------------------------------------------------------------
(* Address derivation (crate::pda).  A candidate address is an injective  *)
(* encoding of (domain, seeds, bump); a candidate "on the curve" is not a *)
(* valid derived address and the search goes on to the next lower bump.   *)

OnCurve(a) == a % 2 = 1

CreateMintAuthority(airdrop, bump) ==
    NumPlain + airdrop * (MaxBump + 1) + bump

CreateUserData(airdrop, user, bump) ==
    NumPlain + NumPlain * (MaxBump + 1)
        + (airdrop * NumPlain + user) * (MaxBump + 1) + bump

\* The highest bump whose candidate is off the curve.
FirstBump(cand) ==
    CHOOSE b \in Bumps :
        /\ ~OnCurve(cand[b])
        /\ \A c \in Bumps : c > b => OnCurve(cand[c])

find_mint_authority(airdrop) ==
    LET cand == [b \in Bumps |-> CreateMintAuthority(airdrop, b)]
        bump == FirstBump(cand)
    IN  [key |-> cand[bump], bump |-> bump]

find_airdrop_user_data(airdrop, user) ==
    LET cand == [b \in Bumps |-> CreateUserData(airdrop, user, b)]
        bump == FirstBump(cand)
    IN  [key |-> cand[bump], bump |-> bump]

---------------------------------------------------------------------------
(* Account data *)

EmptyData == [kind |-> "empty"]

\* A record with every field of an initialized AirdropConfig, held by an
\* account of another program.
ForgedConfig ==
    [kind |-> "config", is_initialized |-> TRUE, authority |-> Wallet,
     mint_authority |-> Wallet, revenues |-> Wallet, airdrop_amount |-> 1,
     metadata_prefix |-> 0, symbol |-> 0, price |-> 1, bump |-> 0]

ZeroedConfig ==
    [kind |-> "config", is_initialized |-> FALSE, authority |-> 0,
     mint_authority |-> 0, revenues |-> 0, airdrop_amount |-> 0,
     metadata_prefix |-> 0, symbol |-> 0, price |-> 0, bump |-> 0]

\* AirdropConfig::unpack_from_account
unpack_from_account(acc) ==
    IF acc.data.kind = "config"
    THEN [ok |-> TRUE, value |-> acc.data]
    ELSE [ok |-> FALSE, err |-> "InvalidAccountData"]

\* Rent::from_account_info
Rent_from_account_info(acc) ==
    IF acc.key = RentSysvarId
    THEN [ok |-> TRUE, value |-> [minimum |-> RentMinimum]]
    ELSE [ok |-> FALSE, err |-> "InvalidArgument"]

---------------------------------------------------------------------------
(* Invariant checks *)

\* Mutant: the signer flag is not looked at.
assert_signer_always(acc) == "Ok"

assert_signer(acc) ==
    IF acc.is_signer THEN "Ok" ELSE "SignerRequired"

\* Mutant: the writable check reads the signer flag.
assert_writeable_reads_signer(acc) ==
    IF acc.is_signer THEN "Ok" ELSE "WriteableRequired"

assert_writeable(acc) ==
    IF acc.is_writable THEN "Ok" ELSE "WriteableRequired"

\* Mutant: the owner is not looked at.
assert_owned_by_anyone(acc, expected_owner) == "Ok"

assert_owned_by(acc, expected_owner) ==
    IF acc.owner = expected_owner THEN "Ok" ELSE "IllegalOwner"

Ret(r, L, t) == [result |-> r, ledger |-> L, trace |-> t]

---------------------------------------------------------------------------
(* Delegated state mutation (crate::util), called once validation passed *)

Max(a, b) == IF a >= b THEN a ELSE b

Transfer(L, from, to, n) ==
    IF from = to THEN L
    ELSE [L EXCEPT ![from].lamports = @ - n, ![to].lamports = @ + n]

\* Populates the Config record and funds it to the rent-exempt minimum.
process_initialize_airdrop_logic(airdrop_account, airdrop_authority, mint_authority, revenues_account, fee_payer, airdrop_amount, metadata_prefix, symbol, price, program_id, rent, mint_authority_bump, L) ==
    LET key == airdrop_account.key
        needed == Max(0, rent.minimum - L[key].lamports)
        funded == Transfer(L, fee_payer.key, key, needed)
        record ==
            [kind |-> "config", is_initialized |-> TRUE,
             authority |-> airdrop_authority.key,
             mint_authority |-> mint_authority.key,
             revenues |-> revenues_account.key,
             airdrop_amount |-> airdrop_amount,
             metadata_prefix |-> metadata_prefix, symbol |-> symbol,
             price |-> price, bump |-> mint_authority_bump]
    IN  IF L[key].data.kind # "config"
        THEN [result |-> "InvalidAccountData", ledger |-> L]
        ELSE IF L[fee_payer.key].lamports < needed
        THEN [result |-> "InsufficientFunds", ledger |-> L]
        ELSE [result |-> "Ok",
              ledger |-> [funded EXCEPT ![key].data = record]]

\* Allocates the User record at the derived address, owned by the program
\* and funded by the fee payer, and populates it.
process_initialize_airdrop_user_account_logic(user_data_account, user, airdrop, fee_payer, rent, program_id, user_data_account_bump, L) ==
    LET key == user_data_account.key
        funded == Transfer(L, fee_payer.key, key, rent.minimum)
        record ==
            [kind |-> "user", is_initialized |-> TRUE, user |-> user.key,
             airdrop |-> airdrop.key, bump |-> user_data_account_bump]
    IN  IF L[fee_payer.key].lamports < rent.minimum
        THEN [result |-> "InsufficientFunds", ledger |-> L]
        ELSE [result |-> "Ok",
              ledger |-> [funded EXCEPT ![key].owner = program_id,
                                        ![key].data = record]]

---------------------------------------------------------------------------
(* Instruction handlers *)

\* Mutant: the signer check runs first.
process_initialize_airdrop_signer_first(program_id, accts, airdrop_amount, metadata_prefix, symbol, price, L) ==
    IF Len(accts) < 6
    THEN Ret("NotEnoughAccountKeys", L, <<"process_initialize_airdrop">>)
    ELSE
    LET airdrop_account == accts[1]
        airdrop_authority == accts[2]
        mint_authority == accts[3]
        revenues_account == accts[4]
        rent_info == accts[5]
        fee_payer == accts[6]
        pda == find_mint_authority(airdrop_account.key)
        rent == Rent_from_account_info(rent_info)
        t0 == <<"process_initialize_airdrop">>
        t1 == Append(t0, "assert_writeable(airdrop_account)")
        t2 == Append(t1, "assert_owned_by(airdrop_account)")
        t3 == Append(t2, "find_mint_authority")
        t4 == Append(t3, "assert_signer(fee_payer)")
        t5 == Append(t4, "Rent::from_account_info")
        t6 == Append(t5, "process_initialize_airdrop_logic")
        done == process_initialize_airdrop_logic(
                    airdrop_account, airdrop_authority, mint_authority,
                    revenues_account, fee_payer, airdrop_amount,
                    metadata_prefix, symbol, price, program_id, rent.value,
                    pda.bump, L)
    IN  IF assert_signer(fee_payer) # "Ok"
        THEN Ret(assert_signer(fee_payer), L, t4)
        ELSE IF assert_writeable(airdrop_account) # "Ok"
        THEN Ret(assert_writeable(airdrop_account), L, t1)
        ELSE IF assert_owned_by(airdrop_account, program_id) # "Ok"
        THEN Ret(assert_owned_by(airdrop_account, program_id), L, t2)
        ELSE IF pda.key # mint_authority.key
        THEN Ret("PdaCheckFailed", L, t3)
        ELSE IF assert_signer(fee_payer) # "Ok"
        THEN Ret(assert_signer(fee_payer), L, t4)
        ELSE IF ~rent.ok
        THEN Ret(rent.err, L, t5)
        ELSE Ret(done.result, done.ledger, t6)

\* Mutant: the mint authority is not compared with the derived address.
process_initialize_airdrop_any_mint_authority(program_id, accts, airdrop_amount, metadata_prefix, symbol, price, L) ==
    IF Len(accts) < 6
    THEN Ret("NotEnoughAccountKeys", L, <<"process_initialize_airdrop">>)
    ELSE
    LET airdrop_account == accts[1]
        airdrop_authority == accts[2]
        mint_authority == accts[3]
        revenues_account == accts[4]
        rent_info == accts[5]
        fee_payer == accts[6]
        pda == find_mint_authority(airdrop_account.key)
        rent == Rent_from_account_info(rent_info)
        t0 == <<"process_initialize_airdrop">>
        t1 == Append(t0, "assert_writeable(airdrop_account)")
        t2 == Append(t1, "assert_owned_by(airdrop_account)")
        t3 == Append(t2, "find_mint_authority")
        t4 == Append(t3, "assert_signer(fee_payer)")
        t5 == Append(t4, "Rent::from_account_info")
        t6 == Append(t5, "process_initialize_airdrop_logic")
        done == process_initialize_airdrop_logic(
                    airdrop_account, airdrop_authority, mint_authority,
                    revenues_account, fee_payer, airdrop_amount,
                    metadata_prefix, symbol, price, program_id, rent.value,
                    pda.bump, L)
    IN  IF assert_writeable(airdrop_account) # "Ok"
        THEN Ret(assert_writeable(airdrop_account), L, t1)
        ELSE IF assert_owned_by(airdrop_account, program_id) # "Ok"
        THEN Ret(assert_owned_by(airdrop_account, program_id), L, t2)
        ELSE IF assert_signer(fee_payer) # "Ok"
        THEN Ret(assert_signer(fee_payer), L, t4)
        ELSE IF ~rent.ok
        THEN Ret(rent.err, L, t5)
        ELSE Ret(done.result, done.ledger, t6)

\* Mutant: the amount and the price change places on the way to the delegated logic.
process_initialize_airdrop_swapped_args(program_id, accts, airdrop_amount, metadata_prefix, symbol, price, L) ==
    IF Len(accts) < 6
    THEN Ret("NotEnoughAccountKeys", L, <<"process_initialize_airdrop">>)
    ELSE
    LET airdrop_account == accts[1]
        airdrop_authority == accts[2]
        mint_authority == accts[3]
        revenues_account == accts[4]
        rent_info == accts[5]
        fee_payer == accts[6]
        pda == find_mint_authority(airdrop_account.key)
        rent == Rent_from_account_info(rent_info)
        t0 == <<"process_initialize_airdrop">>
        t1 == Append(t0, "assert_writeable(airdrop_account)")
        t2 == Append(t1, "assert_owned_by(airdrop_account)")
        t3 == Append(t2, "find_mint_authority")
        t4 == Append(t3, "assert_signer(fee_payer)")
        t5 == Append(t4, "Rent::from_account_info")
        t6 == Append(t5, "process_initialize_airdrop_logic")
        done == process_initialize_airdrop_logic(
                    airdrop_account, airdrop_authority, mint_authority,
                    revenues_account, fee_payer, price,
                    metadata_prefix, symbol, airdrop_amount, program_id, rent.value,
                    pda.bump, L)
    IN  IF assert_writeable(airdrop_account) # "Ok"
        THEN Ret(assert_writeable(airdrop_account), L, t1)
        ELSE IF assert_owned_by(airdrop_account, program_id) # "Ok"
        THEN Ret(assert_owned_by(airdrop_account, program_id), L, t2)
        ELSE IF pda.key # mint_authority.key
        THEN Ret("PdaCheckFailed", L, t3)
        ELSE IF assert_signer(fee_payer) # "Ok"
        THEN Ret(assert_signer(fee_payer), L, t4)
        ELSE IF ~rent.ok
        THEN Ret(rent.err, L, t5)
        ELSE Ret(done.result, done.ledger, t6)

\* Mutant: the authority account must have signed.
process_initialize_airdrop_authority_signs(program_id, accts, airdrop_amount, metadata_prefix, symbol, price, L) ==
    IF Len(accts) < 6
    THEN Ret("NotEnoughAccountKeys", L, <<"process_initialize_airdrop">>)
    ELSE
    LET airdrop_account == accts[1]
        airdrop_authority == accts[2]
        mint_authority == accts[3]
        revenues_account == accts[4]
        rent_info == accts[5]
        fee_payer == accts[6]
        pda == find_mint_authority(airdrop_account.key)
        rent == Rent_from_account_info(rent_info)
        t0 == <<"process_initialize_airdrop">>
        t1 == Append(t0, "assert_writeable(airdrop_account)")
        t2 == Append(t1, "assert_owned_by(airdrop_account)")
        t3 == Append(t2, "find_mint_authority")
        t4 == Append(t3, "assert_signer(fee_payer)")
        t5 == Append(t4, "Rent::from_account_info")
        t6 == Append(t5, "process_initialize_airdrop_logic")
        done == process_initialize_airdrop_logic(
                    airdrop_account, airdrop_authority, mint_authority,
                    revenues_account, fee_payer, airdrop_amount,
                    metadata_prefix, symbol, price, program_id, rent.value,
                    pda.bump, L)
    IN  IF assert_writeable(airdrop_account) # "Ok"
        THEN Ret(assert_writeable(airdrop_account), L, t1)
        ELSE IF assert_owned_by(airdrop_account, program_id) # "Ok"
        THEN Ret(assert_owned_by(airdrop_account, program_id), L, t2)
        ELSE IF assert_signer(airdrop_authority) # "Ok"
        THEN Ret(assert_signer(airdrop_authority), L, t2)
        ELSE IF pda.key # mint_authority.key
        THEN Ret("PdaCheckFailed", L, t3)
        ELSE IF assert_signer(fee_payer) # "Ok"
        THEN Ret(assert_signer(fee_payer), L, t4)
        ELSE IF ~rent.ok
        THEN Ret(rent.err, L, t5)
        ELSE Ret(done.result, done.ledger, t6)

process_initialize_airdrop(program_id, accts, airdrop_amount, metadata_prefix, symbol, price, L) ==
    IF Len(accts) < 6
    THEN Ret("NotEnoughAccountKeys", L, <<"process_initialize_airdrop">>)
    ELSE
    LET airdrop_account == accts[1]
        airdrop_authority == accts[2]
        mint_authority == accts[3]
        revenues_account == accts[4]
        rent_info == accts[5]
        fee_payer == accts[6]
        pda == find_mint_authority(airdrop_account.key)
        rent == Rent_from_account_info(rent_info)
        t0 == <<"process_initialize_airdrop">>
        t1 == Append(t0, "assert_writeable(airdrop_account)")
        t2 == Append(t1, "assert_owned_by(airdrop_account)")
        t3 == Append(t2, "find_mint_authority")
        t4 == Append(t3, "assert_signer(fee_payer)")
        t5 == Append(t4, "Rent::from_account_info")
        t6 == Append(t5, "process_initialize_airdrop_logic")
        done == process_initialize_airdrop_logic(
                    airdrop_account, airdrop_authority, mint_authority,
                    revenues_account, fee_payer, airdrop_amount,
                    metadata_prefix, symbol, price, program_id, rent.value,
                    pda.bump, L)
    IN  IF assert_writeable(airdrop_account) # "Ok"
        THEN Ret(assert_writeable(airdrop_account), L, t1)
        ELSE IF assert_owned_by(airdrop_account, program_id) # "Ok"
        THEN Ret(assert_owned_by(airdrop_account, program_id), L, t2)
        ELSE IF pda.key # mint_authority.key
        THEN Ret("PdaCheckFailed", L, t3)
        ELSE IF assert_signer(fee_payer) # "Ok"
        THEN Ret(assert_signer(fee_payer), L, t4)
        ELSE IF ~rent.ok
        THEN Ret(rent.err, L, t5)
        ELSE Ret(done.result, done.ledger, t6)

\* Mutant: the balance check runs before the address check.
process_initialize_airdrop_user_balance_first(program_id, accts, L) ==
    IF Len(accts) < 5
    THEN Ret("NotEnoughAccountKeys", L, <<"process_initialize_airdrop_user">>)
    ELSE
    LET user_data_account == accts[1]
        user == accts[2]
        airdrop == accts[3]
        rent_info == accts[4]
        fee_payer == accts[5]
        pda == find_airdrop_user_data(airdrop.key, user.key)
        airdrop_data == unpack_from_account(airdrop)
        rent == Rent_from_account_info(rent_info)
        t0 == <<"process_initialize_airdrop_user">>
        t1 == Append(t0, "find_airdrop_user_data")
        t2 == Append(t1, "lamports(user_data_account)")
        t3 == Append(t2, "assert_writeable(user_data_account)")
        t4 == Append(t3, "assert_owned_by(airdrop)")
        t5 == Append(t4, "assert_writeable(airdrop)")
        t6 == Append(t5, "unpack_from_account(airdrop)")
        t7 == Append(t6, "is_initialized(airdrop)")
        t8 == Append(t7, "assert_signer(fee_payer)")
        t9 == Append(t8, "Rent::from_account_info")
        t10 == Append(t9, "process_initialize_airdrop_user_account_logic")
        done == process_initialize_airdrop_user_account_logic(
                    user_data_account, user, airdrop, fee_payer, rent.value,
                    program_id, pda.bump, L)
    IN  IF user_data_account.lamports > 0
        THEN Ret("AccountAlreadyInitialized", L, t2)
        ELSE IF pda.key # user_data_account.key
        THEN Ret("PdaCheckFailed", L, t1)
        ELSE IF assert_writeable(user_data_account) # "Ok"
        THEN Ret(assert_writeable(user_data_account), L, t3)
        ELSE IF assert_owned_by(airdrop, program_id) # "Ok"
        THEN Ret(assert_owned_by(airdrop, program_id), L, t4)
        ELSE IF assert_writeable(airdrop) # "Ok"
        THEN Ret(assert_writeable(airdrop), L, t5)
        ELSE IF ~airdrop_data.ok
        THEN Ret(airdrop_data.err, L, t6)
        ELSE IF ~airdrop_data.value.is_initialized
        THEN Ret("Uninitialized", L, t7)
        ELSE IF assert_signer(fee_payer) # "Ok"
        THEN Ret(assert_signer(fee_payer), L, t8)
        ELSE IF ~rent.ok
        THEN Ret(rent.err, L, t9)
        ELSE Ret(done.result, done.ledger, t10)

\* Mutant: no check that the user record holds no balance yet.
process_initialize_airdrop_user_no_balance_check(program_id, accts, L) ==
    IF Len(accts) < 5
    THEN Ret("NotEnoughAccountKeys", L, <<"process_initialize_airdrop_user">>)
    ELSE
    LET user_data_account == accts[1]
        user == accts[2]
        airdrop == accts[3]
        rent_info == accts[4]
        fee_payer == accts[5]
        pda == find_airdrop_user_data(airdrop.key, user.key)
        airdrop_data == unpack_from_account(airdrop)
        rent == Rent_from_account_info(rent_info)
        t0 == <<"process_initialize_airdrop_user">>
        t1 == Append(t0, "find_airdrop_user_data")
        t2 == Append(t1, "lamports(user_data_account)")
        t3 == Append(t2, "assert_writeable(user_data_account)")
        t4 == Append(t3, "assert_owned_by(airdrop)")
        t5 == Append(t4, "assert_writeable(airdrop)")
        t6 == Append(t5, "unpack_from_account(airdrop)")
        t7 == Append(t6, "is_initialized(airdrop)")
        t8 == Append(t7, "assert_signer(fee_payer)")
        t9 == Append(t8, "Rent::from_account_info")
        t10 == Append(t9, "process_initialize_airdrop_user_account_logic")
        done == process_initialize_airdrop_user_account_logic(
                    user_data_account, user, airdrop, fee_payer, rent.value,
                    program_id, pda.bump, L)
    IN  IF pda.key # user_data_account.key
        THEN Ret("PdaCheckFailed", L, t1)
        ELSE IF assert_writeable(user_data_account) # "Ok"
        THEN Ret(assert_writeable(user_data_account), L, t3)
        ELSE IF assert_owned_by(airdrop, program_id) # "Ok"
        THEN Ret(assert_owned_by(airdrop, program_id), L, t4)
        ELSE IF assert_writeable(airdrop) # "Ok"
        THEN Ret(assert_writeable(airdrop), L, t5)
        ELSE IF ~airdrop_data.ok
        THEN Ret(airdrop_data.err, L, t6)
        ELSE IF ~airdrop_data.value.is_initialized
        THEN Ret("Uninitialized", L, t7)
        ELSE IF assert_signer(fee_payer) # "Ok"
        THEN Ret(assert_signer(fee_payer), L, t8)
        ELSE IF ~rent.ok
        THEN Ret(rent.err, L, t9)
        ELSE Ret(done.result, done.ledger, t10)

\* Mutant: the seeds of the user record address are swapped.
process_initialize_airdrop_user_swapped_seeds(program_id, accts, L) ==
    IF Len(accts) < 5
    THEN Ret("NotEnoughAccountKeys", L, <<"process_initialize_airdrop_user">>)
    ELSE
    LET user_data_account == accts[1]
        user == accts[2]
        airdrop == accts[3]
        rent_info == accts[4]
        fee_payer == accts[5]
        pda == find_airdrop_user_data(user.key, airdrop.key)
        airdrop_data == unpack_from_account(airdrop)
        rent == Rent_from_account_info(rent_info)
        t0 == <<"process_initialize_airdrop_user">>
        t1 == Append(t0, "find_airdrop_user_data")
        t2 == Append(t1, "lamports(user_data_account)")
        t3 == Append(t2, "assert_writeable(user_data_account)")
        t4 == Append(t3, "assert_owned_by(airdrop)")
        t5 == Append(t4, "assert_writeable(airdrop)")
        t6 == Append(t5, "unpack_from_account(airdrop)")
        t7 == Append(t6, "is_initialized(airdrop)")
        t8 == Append(t7, "assert_signer(fee_payer)")
        t9 == Append(t8, "Rent::from_account_info")
        t10 == Append(t9, "process_initialize_airdrop_user_account_logic")
        done == process_initialize_airdrop_user_account_logic(
                    user_data_account, user, airdrop, fee_payer, rent.value,
                    program_id, pda.bump, L)
    IN  IF pda.key # user_data_account.key
        THEN Ret("PdaCheckFailed", L, t1)
        ELSE IF user_data_account.lamports > 0
        THEN Ret("AccountAlreadyInitialized", L, t2)
        ELSE IF assert_writeable(user_data_account) # "Ok"
        THEN Ret(assert_writeable(user_data_account), L, t3)
        ELSE IF assert_owned_by(airdrop, program_id) # "Ok"
        THEN Ret(assert_owned_by(airdrop, program_id), L, t4)
        ELSE IF assert_writeable(airdrop) # "Ok"
        THEN Ret(assert_writeable(airdrop), L, t5)
        ELSE IF ~airdrop_data.ok
        THEN Ret(airdrop_data.err, L, t6)
        ELSE IF ~airdrop_data.value.is_initialized
        THEN Ret("Uninitialized", L, t7)
        ELSE IF assert_signer(fee_payer) # "Ok"
        THEN Ret(assert_signer(fee_payer), L, t8)
        ELSE IF ~rent.ok
        THEN Ret(rent.err, L, t9)
        ELSE Ret(done.result, done.ledger, t10)

\* Mutant: the user record account's address and balance are not checked.
process_initialize_airdrop_user_unchecked_address(program_id, accts, L) ==
    IF Len(accts) < 5
    THEN Ret("NotEnoughAccountKeys", L, <<"process_initialize_airdrop_user">>)
    ELSE
    LET user_data_account == accts[1]
        user == accts[2]
        airdrop == accts[3]
        rent_info == accts[4]
        fee_payer == accts[5]
        pda == find_airdrop_user_data(airdrop.key, user.key)
        airdrop_data == unpack_from_account(airdrop)
        rent == Rent_from_account_info(rent_info)
        t0 == <<"process_initialize_airdrop_user">>
        t1 == Append(t0, "find_airdrop_user_data")
        t2 == Append(t1, "lamports(user_data_account)")
        t3 == Append(t2, "assert_writeable(user_data_account)")
        t4 == Append(t3, "assert_owned_by(airdrop)")
        t5 == Append(t4, "assert_writeable(airdrop)")
        t6 == Append(t5, "unpack_from_account(airdrop)")
        t7 == Append(t6, "is_initialized(airdrop)")
        t8 == Append(t7, "assert_signer(fee_payer)")
        t9 == Append(t8, "Rent::from_account_info")
        t10 == Append(t9, "process_initialize_airdrop_user_account_logic")
        done == process_initialize_airdrop_user_account_logic(
                    user_data_account, user, airdrop, fee_payer, rent.value,
                    program_id, pda.bump, L)
    IN  IF assert_writeable(user_data_account) # "Ok"
        THEN Ret(assert_writeable(user_data_account), L, t3)
        ELSE IF assert_owned_by(airdrop, program_id) # "Ok"
        THEN Ret(assert_owned_by(airdrop, program_id), L, t4)
        ELSE IF assert_writeable(airdrop) # "Ok"
        THEN Ret(assert_writeable(airdrop), L, t5)
        ELSE IF ~airdrop_data.ok
        THEN Ret(airdrop_data.err, L, t6)
        ELSE IF ~airdrop_data.value.is_initialized
        THEN Ret("Uninitialized", L, t7)
        ELSE IF assert_signer(fee_payer) # "Ok"
        THEN Ret(assert_signer(fee_payer), L, t8)
        ELSE IF ~rent.ok
        THEN Ret(rent.err, L, t9)
        ELSE Ret(done.result, done.ledger, t10)

\* Mutant: the config record's initialization flag is not looked at.
process_initialize_airdrop_user_no_initialized_check(program_id, accts, L) ==
    IF Len(accts) < 5
    THEN Ret("NotEnoughAccountKeys", L, <<"process_initialize_airdrop_user">>)
    ELSE
    LET user_data_account == accts[1]
        user == accts[2]
        airdrop == accts[3]
        rent_info == accts[4]
        fee_payer == accts[5]
        pda == find_airdrop_user_data(airdrop.key, user.key)
        airdrop_data == unpack_from_account(airdrop)
        rent == Rent_from_account_info(rent_info)
        t0 == <<"process_initialize_airdrop_user">>
        t1 == Append(t0, "find_airdrop_user_data")
        t2 == Append(t1, "lamports(user_data_account)")
        t3 == Append(t2, "assert_writeable(user_data_account)")
        t4 == Append(t3, "assert_owned_by(airdrop)")
        t5 == Append(t4, "assert_writeable(airdrop)")
        t6 == Append(t5, "unpack_from_account(airdrop)")
        t7 == Append(t6, "is_initialized(airdrop)")
        t8 == Append(t7, "assert_signer(fee_payer)")
        t9 == Append(t8, "Rent::from_account_info")
        t10 == Append(t9, "process_initialize_airdrop_user_account_logic")
        done == process_initialize_airdrop_user_account_logic(
                    user_data_account, user, airdrop, fee_payer, rent.value,
                    program_id, pda.bump, L)
    IN  IF pda.key # user_data_account.key
        THEN Ret("PdaCheckFailed", L, t1)
        ELSE IF user_data_account.lamports > 0
        THEN Ret("AccountAlreadyInitialized", L, t2)
        ELSE IF assert_writeable(user_data_account) # "Ok"
        THEN Ret(assert_writeable(user_data_account), L, t3)
        ELSE IF assert_owned_by(airdrop, program_id) # "Ok"
        THEN Ret(assert_owned_by(airdrop, program_id), L, t4)
        ELSE IF assert_writeable(airdrop) # "Ok"
        THEN Ret(assert_writeable(airdrop), L, t5)
        ELSE IF ~airdrop_data.ok
        THEN Ret(airdrop_data.err, L, t6)
        ELSE IF assert_signer(fee_payer) # "Ok"
        THEN Ret(assert_signer(fee_payer), L, t8)
        ELSE IF ~rent.ok
        THEN Ret(rent.err, L, t9)
        ELSE Ret(done.result, done.ledger, t10)

\* Mutant: the fee payer is taken from the end of the list.
process_initialize_airdrop_user_last_is_fee_payer(program_id, accts, L) ==
    IF Len(accts) < 5
    THEN Ret("NotEnoughAccountKeys", L, <<"process_initialize_airdrop_user">>)
    ELSE
    LET user_data_account == accts[1]
        user == accts[2]
        airdrop == accts[3]
        rent_info == accts[4]
        fee_payer == accts[Len(accts)]
        pda == find_airdrop_user_data(airdrop.key, user.key)
        airdrop_data == unpack_from_account(airdrop)
        rent == Rent_from_account_info(rent_info)
        t0 == <<"process_initialize_airdrop_user">>
        t1 == Append(t0, "find_airdrop_user_data")
        t2 == Append(t1, "lamports(user_data_account)")
        t3 == Append(t2, "assert_writeable(user_data_account)")
        t4 == Append(t3, "assert_owned_by(airdrop)")
        t5 == Append(t4, "assert_writeable(airdrop)")
        t6 == Append(t5, "unpack_from_account(airdrop)")
        t7 == Append(t6, "is_initialized(airdrop)")
        t8 == Append(t7, "assert_signer(fee_payer)")
        t9 == Append(t8, "Rent::from_account_info")
        t10 == Append(t9, "process_initialize_airdrop_user_account_logic")
        done == process_initialize_airdrop_user_account_logic(
                    user_data_account, user, airdrop, fee_payer, rent.value,
                    program_id, pda.bump, L)
    IN  IF pda.key # user_data_account.key
        THEN Ret("PdaCheckFailed", L, t1)
        ELSE IF user_data_account.lamports > 0
        THEN Ret("AccountAlreadyInitialized", L, t2)
        ELSE IF assert_writeable(user_data_account) # "Ok"
        THEN Ret(assert_writeable(user_data_account), L, t3)
        ELSE IF assert_owned_by(airdrop, program_id) # "Ok"
        THEN Ret(assert_owned_by(airdrop, program_id), L, t4)
        ELSE IF assert_writeable(airdrop) # "Ok"
        THEN Ret(assert_writeable(airdrop), L, t5)
        ELSE IF ~airdrop_data.ok
        THEN Ret(airdrop_data.err, L, t6)
        ELSE IF ~airdrop_data.value.is_initialized
        THEN Ret("Uninitialized", L, t7)
        ELSE IF assert_signer(fee_payer) # "Ok"
        THEN Ret(assert_signer(fee_payer), L, t8)
        ELSE IF ~rent.ok
        THEN Ret(rent.err, L, t9)
        ELSE Ret(done.result, done.ledger, t10)

process_initialize_airdrop_user(program_id, accts, L) ==
    IF Len(accts) < 5
    THEN Ret("NotEnoughAccountKeys", L, <<"process_initialize_airdrop_user">>)
    ELSE
    LET user_data_account == accts[1]
        user == accts[2]
        airdrop == accts[3]
        rent_info == accts[4]
        fee_payer == accts[5]
        pda == find_airdrop_user_data(airdrop.key, user.key)
        airdrop_data == unpack_from_account(airdrop)
        rent == Rent_from_account_info(rent_info)
        t0 == <<"process_initialize_airdrop_user">>
        t1 == Append(t0, "find_airdrop_user_data")
        t2 == Append(t1, "lamports(user_data_account)")
        t3 == Append(t2, "assert_writeable(user_data_account)")
        t4 == Append(t3, "assert_owned_by(airdrop)")
        t5 == Append(t4, "assert_writeable(airdrop)")
        t6 == Append(t5, "unpack_from_account(airdrop)")
        t7 == Append(t6, "is_initialized(airdrop)")
        t8 == Append(t7, "assert_signer(fee_payer)")
        t9 == Append(t8, "Rent::from_account_info")
        t10 == Append(t9, "process_initialize_airdrop_user_account_logic")
        done == process_initialize_airdrop_user_account_logic(
                    user_data_account, user, airdrop, fee_payer, rent.value,
                    program_id, pda.bump, L)
    IN  IF pda.key # user_data_account.key
        THEN Ret("PdaCheckFailed", L, t1)
        ELSE IF user_data_account.lamports > 0
        THEN Ret("AccountAlreadyInitialized", L, t2)
        ELSE IF assert_writeable(user_data_account) # "Ok"
        THEN Ret(assert_writeable(user_data_account), L, t3)
        ELSE IF assert_owned_by(airdrop, program_id) # "Ok"
        THEN Ret(assert_owned_by(airdrop, program_id), L, t4)
        ELSE IF assert_writeable(airdrop) # "Ok"
        THEN Ret(assert_writeable(airdrop), L, t5)
        ELSE IF ~airdrop_data.ok
        THEN Ret(airdrop_data.err, L, t6)
        ELSE IF ~airdrop_data.value.is_initialized
        THEN Ret("Uninitialized", L, t7)
        ELSE IF assert_signer(fee_payer) # "Ok"
        THEN Ret(assert_signer(fee_payer), L, t8)
        ELSE IF ~rent.ok
        THEN Ret(rent.err, L, t9)
        ELSE Ret(done.result, done.ledger, t10)

\* Mutant: one account short of the list is let through.
process_mint_one_fifteen(program_id, accts, L) ==
    IF Len(accts) < 15
    THEN Ret("NotEnoughAccountKeys", L, <<"process_mint_one">>)
    ELSE Ret("Panic", L, <<"process_mint_one", "todo!">>)

\* Mutant: the stub returns success where it should abort.
process_mint_one_returns_ok(program_id, accts, L) ==
    IF Len(accts) < 16
    THEN Ret("NotEnoughAccountKeys", L, <<"process_mint_one">>)
    ELSE Ret("Ok", L, <<"process_mint_one">>)

\* Takes its sixteen accounts and then hits todo!(): the call aborts.
process_mint_one(program_id, accts, L) ==
    IF Len(accts) < 16
    THEN Ret("NotEnoughAccountKeys", L, <<"process_mint_one">>)
    ELSE Ret("Panic", L, <<"process_mint_one", "todo!">>)

---------------------------------------------------------------------------
(* Dispatcher *)

\* crate::instruction::deserialize_instruction_data: a tag followed by the
\* variant's fields, nothing missing and nothing left over.
deserialize_instruction_data(data) ==
    IF Len(data) = 5 /\ data[1] = 0
    THEN [ok |-> TRUE, variant |-> "InitializeAirdrop",
          args |-> [airdrop_amount |-> data[2], metadata_prefix |-> data[3],
                    symbol |-> data[4], price |-> data[5]]]
    ELSE IF Len(data) = 1 /\ data[1] = 1
    THEN [ok |-> TRUE, variant |-> "InitializeAirdropUser"]
    ELSE IF Len(data) = 1 /\ data[1] = 2
    THEN [ok |-> TRUE, variant |-> "MintOne"]
    ELSE [ok |-> FALSE, err |-> "InvalidInstructionData"]

Prepend(e, r) == [r EXCEPT !.trace = <<e>> \o @]

\* Mutant: Initialize-User-Record is routed to the Mint-One handler.
process_instruction_misrouted(program_id, accts, data, L) ==
    LET ix == deserialize_instruction_data(data)
    IN  IF ~ix.ok
        THEN Ret(ix.err, L, <<"deserialize_instruction_data">>)
        ELSE Prepend("deserialize_instruction_data",
            CASE ix.variant = "InitializeAirdrop" ->
                    process_initialize_airdrop(
                        program_id, accts, ix.args.airdrop_amount,
                        ix.args.metadata_prefix, ix.args.symbol,
                        ix.args.price, L)
              [] ix.variant = "InitializeAirdropUser" ->
                    process_mint_one(program_id, accts, L)
              [] ix.variant = "MintOne" ->
                    process_mint_one(program_id, accts, L))

process_instruction(program_id, accts, data, L) ==
    LET ix == deserialize_instruction_data(data)
    IN  IF ~ix.ok
        THEN Ret(ix.err, L, <<"deserialize_instruction_data">>)
        ELSE Prepend("deserialize_instruction_data",
            CASE ix.variant = "InitializeAirdrop" ->
                    process_initialize_airdrop(
                        program_id, accts, ix.args.airdrop_amount,
                        ix.args.metadata_prefix, ix.args.symbol,
                        ix.args.price, L)
              [] ix.variant = "InitializeAirdropUser" ->
                    process_initialize_airdrop_user(program_id, accts, L)
              [] ix.variant = "MintOne" ->
                    process_mint_one(program_id, accts, L))

---------------------------------------------------------------------------
(* The ledger and what a caller may pass *)

Users == {Wallet, User2}

MintAuthorityKeys ==
    {CreateMintAuthority(Config, b) : b \in Bumps}
        \cup {find_mint_authority(c).key : c \in {Malformed, FakeConfig}}

UserDataKeys ==
    {CreateUserData(c, u, b) :
        c \in {Config, Malformed, FakeConfig}, u \in Users, b \in Bumps}

Keys == Plain \cup MintAuthorityKeys \cup UserDataKeys

\* The config account and the malformed one were allocated to the program
\* by an earlier step, not yet rent exempt; the fake config belongs to
\* another program; derived addresses hold nothing.
InitLedger ==
    [k \in Keys |->
        CASE k = Config ->
                [lamports |-> RentMinimum - 1, owner |-> ProgramId,
                 data |-> ZeroedConfig]
          [] k = Malformed ->
                [lamports |-> RentMinimum - 1, owner |-> ProgramId,
                 data |-> EmptyData]
          [] k = FakeConfig ->
                [lamports |-> RentMinimum, owner |-> OtherProgramId,
                 data |-> ForgedConfig]
          [] k = FeePayer ->
                [lamports |-> FeePayerFunds, owner |-> SystemProgramId,
                 data |-> EmptyData]
          [] k \in Plain \ {Config, Malformed, FakeConfig, FeePayer} ->
                [lamports |-> 1, owner |-> SystemProgramId,
                 data |-> EmptyData]
          [] OTHER ->
                [lamports |-> 0, owner |-> SystemProgramId,
                 data |-> EmptyData]]

Meta(k, s, w) == [key |-> k, is_signer |-> s, is_writable |-> w]

\* The AccountInfo the runtime hands to the program for a caller's meta.
Info(meta, L) ==
    [key |-> meta.key, is_signer |-> meta.is_signer,
     is_writable |-> meta.is_writable, lamports |-> L[meta.key].lamports,
     owner |-> L[meta.key].owner, data |-> L[meta.key].data]

\* What a caller may put at each position.
AirdropMetas ==
    {Meta(k, FALSE, w) :
        k \in {Config, Malformed, FakeConfig}, w \in BOOLEAN}
AuthorityMetas == {Meta(Wallet, s, FALSE) : s \in BOOLEAN}
MintAuthorityMetas ==
    {Meta(k, FALSE, FALSE) : k \in MintAuthorityKeys \cup {Wallet}}
RevenueMetas == {Meta(User2, FALSE, TRUE)}
RentMetas == {Meta(k, FALSE, FALSE) : k \in {RentSysvarId, Wallet}}
FeePayerMetas == {Meta(FeePayer, s, TRUE) : s \in BOOLEAN}
UserDataMetas ==
    {Meta(k, FALSE, w) :
        k \in UserDataKeys \cup {Wallet, Config}, w \in BOOLEAN}
UserMetas == {Meta(k, FALSE, FALSE) : k \in Users}
ExtraMetas == {Meta(Wallet, FALSE, FALSE)}

\* Initialize-Config's six accounts in the handler's order, and one more.
InitializeAirdropAccounts ==
    AirdropMetas \X AuthorityMetas \X MintAuthorityMetas \X RevenueMetas
        \X RentMetas \X FeePayerMetas \X ExtraMetas

\* Initialize-User-Record's five accounts, and one more.
InitializeAirdropUserAccounts ==
    UserDataMetas \X UserMetas \X AirdropMetas \X RentMetas
        \X FeePayerMetas \X ExtraMetas

\* Mint-One's sixteen accounts, and one more.
MintOneAccounts ==
    {<<c, Meta(find_airdrop_user_data(Config, Wallet).key, FALSE, TRUE),
       Meta(User2, TRUE, TRUE), Meta(Wallet, FALSE, FALSE),
       Meta(User2, FALSE, TRUE), Meta(User2, FALSE, TRUE),
       Meta(find_mint_authority(Config).key, FALSE, FALSE),
       Meta(SystemProgramId, FALSE, FALSE), Meta(RentSysvarId, FALSE, FALSE),
       Meta(RentSysvarId, FALSE, FALSE), Meta(SystemProgramId, FALSE, FALSE),
       Meta(SystemProgramId, FALSE, FALSE), Meta(SystemProgramId, FALSE, FALSE),
       f, Meta(Wallet, TRUE, FALSE), Meta(User2, FALSE, TRUE),
       Meta(Wallet, FALSE, FALSE)>> :
        c \in AirdropMetas, f \in FeePayerMetas}

\* Initialize-Config payloads: tag, amount, metadata prefix, symbol, price.
InitializeAirdropData ==
    {<<0, a, m, s, p>> :
        a \in Amounts, m \in Prefixes, s \in Symbols, p \in Prices}

\* empty, unknown tag, truncated fields
BadData == {<<>>, <<3>>, <<0, 1>>}

---------------------------------------------------------------------------
(* The state machine: the runtime calls the entrypoint on a caller's       *)
(* instruction and takes its result back, one call at a time.             *)

Init ==
    /\ ledger = InitLedger
    /\ instruction_data = <<>>
    /\ accounts = <<>>
    /\ result = "None"
    /\ trace = <<>>

\* One call of the entrypoint on the current ledger.
Call(data, metas) ==
    LET infos == [i \in 1 .. Len(metas) |-> Info(metas[i], ledger)]
        r == process_instruction(ProgramId, infos, data, ledger)
    IN  [accounts |-> infos, result |-> r.result, trace |-> r.trace,
         ledger |-> r.ledger]

InitializeAirdrop ==
    /\ result = "None"
    /\ \E data \in InitializeAirdropData, metas \in InitializeAirdropAccounts,
          n \in 0 .. 7 :
        LET r == Call(data, SubSeq(metas, 1, n))
        IN  /\ instruction_data' = data
            /\ accounts' = r.accounts
            /\ result' = r.result
            /\ trace' = r.trace
            /\ ledger' = r.ledger

InitializeAirdropUser ==
    /\ result = "None"
    /\ \E metas \in InitializeAirdropUserAccounts, n \in 0 .. 6 :
        LET r == Call(<<1>>, SubSeq(metas, 1, n))
        IN  /\ instruction_data' = <<1>>
            /\ accounts' = r.accounts
            /\ result' = r.result
            /\ trace' = r.trace
            /\ ledger' = r.ledger

MintOne ==
    /\ result = "None"
    /\ \E metas \in MintOneAccounts, n \in 0 .. 17 :
        LET r == Call(<<2>>, SubSeq(metas, 1, n))
        IN  /\ instruction_data' = <<2>>
            /\ accounts' = r.accounts
            /\ result' = r.result
            /\ trace' = r.trace
            /\ ledger' = r.ledger

BadInstruction ==
    /\ result = "None"
    /\ \E data \in BadData, metas \in MintOneAccounts :
        LET r == Call(data, metas)
        IN  /\ instruction_data' = data
            /\ accounts' = r.accounts
            /\ result' = r.result
            /\ trace' = r.trace
            /\ ledger' = r.ledger

\* The call is over: its result goes back to the runtime and the
\* AccountInfo views it was given are dropped; the ledger stays.
Return ==
    /\ result # "None"
    /\ instruction_data' = <<>>
    /\ accounts' = <<>>
    /\ result' = "None"
    /\ trace' = <<>>
    /\ UNCHANGED ledger

Next ==
    \/ InitializeAirdrop
    \/ InitializeAirdropUser
    \/ MintOne
    \/ BadInstruction
    \/ Return

Spec == Init /\ [][Next]_vars

\* The entrypoint as a function of one call's inputs: a single call of
\* Initialize-Config or Initialize-User-Record on the ledger as allocated,
\* as it is once the config is initialized, and as it is once a user
\* record exists.
AfterInitializeAirdrop ==
    LET metas == <<Meta(Config, FALSE, TRUE), Meta(Wallet, TRUE, FALSE),
                   Meta(find_mint_authority(Config).key, FALSE, FALSE),
                   Meta(User2, FALSE, TRUE), Meta(RentSysvarId, FALSE, FALSE),
                   Meta(FeePayer, TRUE, TRUE)>>
        infos == [i \in 1 .. Len(metas) |-> Info(metas[i], InitLedger)]
    IN  process_instruction(ProgramId, infos, <<0, 1, 0, 7, 1>>,
                            InitLedger).ledger

AfterInitializeAirdropUser ==
    LET metas == <<Meta(find_airdrop_user_data(Config, Wallet).key,
                        FALSE, TRUE),
                   Meta(Wallet, FALSE, FALSE), Meta(Config, FALSE, TRUE),
                   Meta(RentSysvarId, FALSE, FALSE),
                   Meta(FeePayer, TRUE, TRUE)>>
        infos == [i \in 1 .. Len(metas) |->
                    Info(metas[i], AfterInitializeAirdrop)]
    IN  process_instruction(ProgramId, infos, <<1>>,
                            AfterInitializeAirdrop).ledger

InitOneCall ==
    /\ ledger \in {InitLedger, AfterInitializeAirdrop,
                    AfterInitializeAirdropUser}
    /\ instruction_data = <<>>
    /\ accounts = <<>>
    /\ result = "None"
    /\ trace = <<>>

NextOneCall ==
    \/ InitializeAirdrop
    \/ InitializeAirdropUser

SpecOneCall == InitOneCall /\ [][NextOneCall]_vars

---------------------------------------------------------------------------
(* What the properties below read off the last call *)

Events(t) == {t[i] : i \in 1 .. Len(t)}

Count(t, e) == Cardinality({i \in 1 .. Len(t) : t[i] = e})

IsInitializeAirdrop == instruction_data \in InitializeAirdropData
IsInitializeAirdropUser == instruction_data = <<1>>
IsMintOne == instruction_data = <<2>>

\* The ledger still holds what the call saw in the accounts it was given.
AccountsUntouched ==
    \A i \in 1 .. Len(accounts) :
        /\ ledger[accounts[i].key].data = accounts[i].data
        /\ ledger[accounts[i].key].lamports = accounts[i].lamports
        /\ ledger[accounts[i].key].owner = accounts[i].owner

\* Initialize-Config's four checks, read off the accounts it was given.
ConfigWritable == accounts[1].is_writable
ConfigOwned == accounts[1].owner = ProgramId
MintAuthorityDerived ==
    accounts[3].key = find_mint_authority(accounts[1].key).key
ConfigFeePayerSigned == accounts[6].is_signer

\* Initialize-User-Record's seven checks, likewise.
UserDataDerived ==
    accounts[1].key =
        find_airdrop_user_data(accounts[3].key, accounts[2].key).key
UserDataVacant == accounts[1].lamports = 0
UserDataWritable == accounts[1].is_writable
UserConfigOwned == accounts[3].owner = ProgramId
UserConfigWritable == accounts[3].is_writable
UserConfigUnpacks == accounts[3].data.kind = "config"
UserConfigInitialized ==
    UserConfigUnpacks /\ accounts[3].data.is_initialized
UserFeePayerSigned == accounts[5].is_signer

\* C1: Initialize-Config with six accounts returns the error of the first
\* failing check in the order writable, owned, derived mint authority,
\* signer; the rent sysvar is read and the delegated logic called only when
\* all four pass.
C1_InitializeAirdropFirstFailure ==
    (IsInitializeAirdrop /\ Len(accounts) >= 6) =>
        /\ ~ConfigWritable => result = "WriteableRequired"
        /\ (ConfigWritable /\ ~ConfigOwned) => result = "IllegalOwner"
        /\ (ConfigWritable /\ ConfigOwned /\ ~MintAuthorityDerived)
                => result = "PdaCheckFailed"
        /\ (ConfigWritable /\ ConfigOwned /\ MintAuthorityDerived
                /\ ~ConfigFeePayerSigned) => result = "SignerRequired"
        /\ ({"Rent::from_account_info", "process_initialize_airdrop_logic"}
                \cap Events(trace) # {})
                => (ConfigWritable /\ ConfigOwned /\ MintAuthorityDerived
                        /\ ConfigFeePayerSigned)

\* Two checks fail at once and the earlier one's error is returned.
C1_Witness ==
    /\ IsInitializeAirdrop /\ Len(accounts) >= 6
    /\ ConfigWritable /\ ConfigOwned
    /\ ~MintAuthorityDerived /\ ~ConfigFeePayerSigned
    /\ result = "PdaCheckFailed"

\* C2 as stated: a config record that does not deserialize, or whose flag
\* is unset, yields Uninitialized at step (f).
C2_AsStated ==
    (IsInitializeAirdropUser /\ Len(accounts) >= 5) =>
        /\ ~UserDataDerived => result = "PdaCheckFailed"
        /\ (UserDataDerived /\ ~UserDataVacant)
                => result = "AccountAlreadyInitialized"
        /\ (UserDataDerived /\ UserDataVacant /\ ~UserDataWritable)
                => result = "WriteableRequired"
        /\ (UserDataDerived /\ UserDataVacant /\ UserDataWritable
                /\ ~UserConfigOwned) => result = "IllegalOwner"
        /\ (UserDataDerived /\ UserDataVacant /\ UserDataWritable
                /\ UserConfigOwned /\ ~UserConfigWritable)
                => result = "WriteableRequired"
        /\ (UserDataDerived /\ UserDataVacant /\ UserDataWritable
                /\ UserConfigOwned /\ UserConfigWritable
                /\ ~UserConfigInitialized) => result = "Uninitialized"
        /\ (UserDataDerived /\ UserDataVacant /\ UserDataWritable
                /\ UserConfigOwned /\ UserConfigWritable
                /\ UserConfigInitialized /\ ~UserFeePayerSigned)
                => result = "SignerRequired"

\* C2 amended: Initialize-User-Record with five accounts returns the error
\* of the first failing check in the order derived address, zero balance,
\* user record writable, config owned, config writable, config record
\* deserializes (else the deserializer's own error), config initialized
\* (else Uninitialized), fee payer signer.
C2_InitializeAirdropUserFirstFailure ==
    (IsInitializeAirdropUser /\ Len(accounts) >= 5) =>
        /\ ~UserDataDerived => result = "PdaCheckFailed"
        /\ (UserDataDerived /\ ~UserDataVacant)
                => result = "AccountAlreadyInitialized"
        /\ (UserDataDerived /\ UserDataVacant /\ ~UserDataWritable)
                => result = "WriteableRequired"
        /\ (UserDataDerived /\ UserDataVacant /\ UserDataWritable
                /\ ~UserConfigOwned) => result = "IllegalOwner"
        /\ (UserDataDerived /\ UserDataVacant /\ UserDataWritable
                /\ UserConfigOwned /\ ~UserConfigWritable)
                => result = "WriteableRequired"
        /\ (UserDataDerived /\ UserDataVacant /\ UserDataWritable
                /\ UserConfigOwned /\ UserConfigWritable
                /\ ~UserConfigUnpacks)
                => result = unpack_from_account(accounts[3]).err
        /\ (UserDataDerived /\ UserDataVacant /\ UserDataWritable
                /\ UserConfigOwned /\ UserConfigWritable
                /\ UserConfigUnpacks /\ ~UserConfigInitialized)
                => result = "Uninitialized"
        /\ (UserDataDerived /\ UserDataVacant /\ UserDataWritable
                /\ UserConfigOwned /\ UserConfigWritable
                /\ UserConfigInitialized /\ ~UserFeePayerSigned)
                => result = "SignerRequired"

\* The config record deserializes, is uninitialized, and the fee payer has
\* not signed either: the earlier failure is the one returned.
C2_Witness ==
    /\ IsInitializeAirdropUser /\ Len(accounts) >= 5
    /\ UserDataDerived /\ UserDataVacant /\ UserDataWritable
    /\ UserConfigOwned /\ UserConfigWritable /\ UserConfigUnpacks
    /\ ~UserConfigInitialized /\ ~UserFeePayerSigned
    /\ result = "Uninitialized"

ValidationErrors ==
    {"WriteableRequired", "IllegalOwner", "PdaCheckFailed", "SignerRequired",
     "AccountAlreadyInitialized", "Uninitialized", "InvalidAccountData"}

ConfigChecksPass ==
    ConfigWritable /\ ConfigOwned /\ MintAuthorityDerived
        /\ ConfigFeePayerSigned

UserChecksPass ==
    UserDataDerived /\ UserDataVacant /\ UserDataWritable /\ UserConfigOwned
        /\ UserConfigWritable /\ UserConfigInitialized /\ UserFeePayerSigned

\* Some validation check of the last call's handler fails.
ValidationFails ==
    \/ IsInitializeAirdrop /\ Len(accounts) >= 6 /\ ~ConfigChecksPass
    \/ IsInitializeAirdropUser /\ Len(accounts) >= 5 /\ ~UserChecksPass

\* The delegated logic ran at most once, as the call's last step, and only
\* with every check of its handler passed.
LogicAfterValidation ==
    /\ Count(trace, "process_initialize_airdrop_logic") <= 1
    /\ Count(trace, "process_initialize_airdrop_user_account_logic") <= 1
    /\ "process_initialize_airdrop_logic" \in Events(trace) =>
            /\ IsInitializeAirdrop /\ Len(accounts) >= 6 /\ ConfigChecksPass
            /\ trace[Len(trace)] = "process_initialize_airdrop_logic"
    /\ "process_initialize_airdrop_user_account_logic" \in Events(trace) =>
            /\ IsInitializeAirdropUser /\ Len(accounts) >= 5
            /\ UserChecksPass
            /\ trace[Len(trace)] =
                    "process_initialize_airdrop_user_account_logic"

\* C3: the delegated logic is called only after every validation check of
\* the handler succeeded and at most once per call; a call in which a check
\* fails returns a check's error and leaves the whole ledger as it was.
C3_ValidateBeforeMutate ==
    [][/\ LogicAfterValidation'
       /\ ValidationFails' =>
            (result' \in ValidationErrors /\ ledger' = ledger)]_vars

\* Initialize-Config on an unwritable config account: WriteableRequired,
\* no delegated call, the config bytes as before.
C3_Witness ==
    /\ IsInitializeAirdrop /\ Len(accounts) >= 6
    /\ accounts[1].key = Config /\ ~ConfigWritable
    /\ ConfigOwned /\ MintAuthorityDerived /\ ConfigFeePayerSigned
    /\ result = "WriteableRequired"
    /\ "process_initialize_airdrop_logic" \notin Events(trace)
    /\ ledger[Config].data = accounts[1].data

\* C4 as stated: a fee payer that has not signed makes every handler fail
\* with SignerRequired, whatever the other accounts are.
C4_AsStated ==
    /\ (IsInitializeAirdrop /\ Len(accounts) >= 6 /\ ~accounts[6].is_signer)
            => result = "SignerRequired"
    /\ (IsInitializeAirdropUser /\ Len(accounts) >= 5
            /\ ~accounts[5].is_signer) => result = "SignerRequired"
    /\ (IsMintOne /\ Len(accounts) >= 16 /\ ~accounts[14].is_signer)
            => result = "SignerRequired"

\* C4 amended: with a fee payer that has not signed, Initialize-Config and
\* Initialize-User-Record fail with a validation error and change nothing
\* in the ledger; the error is SignerRequired when every earlier check of
\* the handler passes.  Mint-One aborts, changing nothing, without looking
\* at the signer flag.
C4_UnsignedFeePayerFails ==
    [][/\ (IsInitializeAirdrop' /\ Len(accounts') >= 6
            /\ ~accounts'[6].is_signer) =>
            /\ result' \in ValidationErrors
            /\ ledger' = ledger
            /\ (ConfigWritable /\ ConfigOwned /\ MintAuthorityDerived)'
                    => result' = "SignerRequired"
       /\ (IsInitializeAirdropUser' /\ Len(accounts') >= 5
            /\ ~accounts'[5].is_signer) =>
            /\ result' \in ValidationErrors
            /\ ledger' = ledger
            /\ (UserDataDerived /\ UserDataVacant /\ UserDataWritable
                    /\ UserConfigOwned /\ UserConfigWritable
                    /\ UserConfigInitialized)'
                    => result' = "SignerRequired"
       /\ (IsMintOne' /\ Len(accounts') >= 16 /\ ~accounts'[14].is_signer) =>
            /\ result' = "Panic"
            /\ ledger' = ledger]_vars

\* Initialize-User-Record passes every check up to the fee payer's, which
\* has not signed.
C4_Witness ==
    /\ IsInitializeAirdropUser /\ Len(accounts) >= 5
    /\ UserDataDerived /\ UserDataVacant /\ UserDataWritable
    /\ UserConfigOwned /\ UserConfigWritable /\ UserConfigInitialized
    /\ ~UserFeePayerSigned
    /\ result = "SignerRequired"
    /\ AccountsUntouched

\* C5 as stated: a user record account holding a balance is rejected as
\* already initialized whether or not its address is the derived one.
C5_AsStated ==
    (IsInitializeAirdropUser /\ Len(accounts) >= 5 /\ ~UserDataVacant)
        => result = "AccountAlreadyInitialized"

\* C5 amended: a user record account holding a balance is always rejected
\* and nothing is changed: as already initialized when its address is the
\* derived one, with PdaCheckFailed when it is not (the address check comes
\* first).
C5_FundedUserDataRejected ==
    (IsInitializeAirdropUser /\ Len(accounts) >= 5 /\ ~UserDataVacant) =>
        /\ UserDataDerived => result = "AccountAlreadyInitialized"
        /\ ~UserDataDerived => result = "PdaCheckFailed"
        /\ AccountsUntouched

\* A user record created by an earlier call is presented again, at its
\* derived address, with everything else in order.
C5_Witness ==
    /\ IsInitializeAirdropUser /\ Len(accounts) >= 5
    /\ ~UserDataVacant /\ UserDataDerived
    /\ accounts[1].data.kind = "user"
    /\ UserDataWritable /\ UserConfigOwned /\ UserConfigWritable
    /\ UserConfigInitialized /\ UserFeePayerSigned
    /\ result = "AccountAlreadyInitialized"

\* C6: once a config account has been initialized, a second
\* Initialize-Config on it changes neither the stored record (amount,
\* price and the other fields) nor the fee payer's balance.
C6_NoSecondInitialize ==
    [][(/\ IsInitializeAirdrop' /\ Len(accounts') >= 6
        /\ accounts'[1].data.kind = "config"
        /\ accounts'[1].data.is_initialized) =>
            /\ ledger'[accounts'[1].key].data = ledger[accounts'[1].key].data
            /\ ledger'[accounts'[6].key].lamports =
                    ledger[accounts'[6].key].lamports]_vars

\* The last call had fewer accounts than its handler takes.
TooFewAccounts ==
    \/ IsInitializeAirdrop /\ Len(accounts) < 6
    \/ IsInitializeAirdropUser /\ Len(accounts) < 5
    \/ IsMintOne /\ Len(accounts) < 16

HandlerEvents ==
    {"process_initialize_airdrop", "process_initialize_airdrop_user",
     "process_mint_one"}

\* C7: a call with fewer accounts than its handler takes (6, 5, 16) returns
\* NotEnoughAccountKeys having run no check (the handler was entered and
\* nothing else), whatever the accounts supplied are, and the ledger is as
\* it was.
C7_TooFewAccounts ==
    [][TooFewAccounts' =>
            /\ result' = "NotEnoughAccountKeys"
            /\ Len(trace') = 2
            /\ trace'[1] = "deserialize_instruction_data"
            /\ trace'[2] \in HandlerEvents
            /\ ledger' = ledger]_vars

\* Initialize-Config with five accounts, the first of which would fail the
\* writable check and the owner check.
C7_Witness ==
    /\ IsInitializeAirdrop /\ Len(accounts) = 5
    /\ ~accounts[1].is_writable /\ accounts[1].owner # ProgramId
    /\ result = "NotEnoughAccountKeys"

HandlerOf(variant) ==
    CASE variant = "InitializeAirdrop" -> "process_initialize_airdrop"
      [] variant = "InitializeAirdropUser" -> "process_initialize_airdrop_user"
      [] variant = "MintOne" -> "process_mint_one"

\* What the variant's handler returns on these accounts and this ledger.
HandlerOutcome(ix, accts, L) ==
    CASE ix.variant = "InitializeAirdrop" ->
            process_initialize_airdrop(
                ProgramId, accts, ix.args.airdrop_amount,
                ix.args.metadata_prefix, ix.args.symbol, ix.args.price, L)
      [] ix.variant = "InitializeAirdropUser" ->
            process_initialize_airdrop_user(ProgramId, accts, L)
      [] ix.variant = "MintOne" -> process_mint_one(ProgramId, accts, L)

\* C8: a payload that does not deserialize returns the deserialization
\* error with no handler entered and the ledger as it was; one that does
\* enters the handler of its variant, and no other, once, on the whole
\* account list, and the handler's result and effect are the call's.
C8_Dispatch ==
    [][result' # "None" =>
        LET ix == deserialize_instruction_data(instruction_data')
        IN  IF ~ix.ok
            THEN /\ result' = ix.err
                 /\ Events(trace') \cap HandlerEvents = {}
                 /\ ledger' = ledger
            ELSE /\ Events(trace') \cap HandlerEvents
                        = {HandlerOf(ix.variant)}
                 /\ Count(trace', HandlerOf(ix.variant)) = 1
                 /\ result' = HandlerOutcome(ix, accounts', ledger).result
                 /\ ledger' = HandlerOutcome(ix, accounts', ledger).ledger
      ]_vars

\* An Initialize-User-Record payload reached its handler, which created
\* the record.
C8_Witness ==
    /\ IsInitializeAirdropUser
    /\ Events(trace) \cap HandlerEvents = {"process_initialize_airdrop_user"}
    /\ result = "Ok"
    /\ ledger[accounts[1].key].data.kind = "user"

\* The last call went past its handler's validation checks.
Accepted == "Rent::from_account_info" \in Events(trace)

\* C9: with the config account writable and owned by the program and the
\* fee payer signed, Initialize-Config accepts the mint authority account
\* exactly when its address is the one derived from the config address,
\* and rejects any other with PdaCheckFailed.
C9_MintAuthorityDerived ==
    (/\ IsInitializeAirdrop /\ Len(accounts) >= 6
     /\ ConfigWritable /\ ConfigOwned /\ ConfigFeePayerSigned) =>
        /\ MintAuthorityDerived <=> Accepted
        /\ MintAuthorityDerived => result # "PdaCheckFailed"
        /\ ~MintAuthorityDerived => result = "PdaCheckFailed"

\* The mint authority given is a candidate for this config under another
\* bump than the derivation's.
C9_Witness ==
    /\ IsInitializeAirdrop /\ Len(accounts) >= 6
    /\ ConfigWritable /\ ConfigOwned /\ ConfigFeePayerSigned
    /\ \E b \in Bumps :
            accounts[3].key = CreateMintAuthority(accounts[1].key, b)
    /\ ~MintAuthorityDerived
    /\ result = "PdaCheckFailed"

\* C10: Initialize-User-Record rejects with PdaCheckFailed, creating no
\* record, every user record address that is not the one derived from the
\* config and user addresses given; with every other check satisfied it
\* accepts the user record account exactly when its address is the derived
\* one.
C10_UserDataDerived ==
    (IsInitializeAirdropUser /\ Len(accounts) >= 5) =>
        /\ ~UserDataDerived =>
                (result = "PdaCheckFailed" /\ ~Accepted /\ AccountsUntouched)
        /\ (/\ UserDataVacant /\ UserDataWritable /\ UserConfigOwned
            /\ UserConfigWritable /\ UserConfigInitialized
            /\ UserFeePayerSigned) => (UserDataDerived <=> Accepted)

\* The user record address given is the one derived for this config and
\* another user; everything else is in order.
C10_Witness ==
    /\ IsInitializeAirdropUser /\ Len(accounts) >= 5
    /\ UserDataVacant /\ UserDataWritable /\ UserConfigOwned
    /\ UserConfigWritable /\ UserConfigInitialized /\ UserFeePayerSigned
    /\ \E u \in Users \ {accounts[2].key} :
            accounts[1].key =
                find_airdrop_user_data(accounts[3].key, u).key
    /\ result = "PdaCheckFailed"
    /\ ledger[accounts[1].key].data.kind = "empty"

\* The account holds a Config record whose initialization flag is set.
ConfigInitialized(L, k) ==
    L[k].data.kind = "config" /\ L[k].data.is_initialized

\* C11: whatever instruction runs, with whatever outcome, an account that
\* holds a Config record with the initialization flag set holds one with the
\* flag set afterwards: once initialized, the flag is never cleared.
C11_FlagNeverCleared ==
    [][\A k \in Keys :
        ConfigInitialized(ledger, k) => ConfigInitialized(ledger', k)]_vars

\* A second Initialize-Config went through on a config already initialized,
\* and the flag is still set.
C11_Witness ==
    /\ IsInitializeAirdrop /\ Len(accounts) >= 6
    /\ accounts[1].key = Config
    /\ accounts[1].data.kind = "config" /\ accounts[1].data.is_initialized
    /\ result = "Ok"
    /\ ConfigInitialized(ledger, Config)

\* What the delegated config-population logic does when given the last
\* call's six accounts, the payload's four fields as they stand, the rent
\* read from the fifth account and the bump of this config's derivation.
ConfigLogicOnPayload(L) ==
    process_initialize_airdrop_logic(
        accounts[1], accounts[2], accounts[3], accounts[4], accounts[6],
        instruction_data[2], instruction_data[3], instruction_data[4],
        instruction_data[5], ProgramId,
        Rent_from_account_info(accounts[5]).value,
        find_mint_authority(accounts[1].key).bump, L)

\* C12: a successful Initialize-Config calls the delegated logic exactly
\* once, and its effect is that of the logic given the payload's amount,
\* metadata prefix, symbol and price unchanged and the bump of the mint
\* authority derivation for this config address; the Config record then has
\* its flag set and the payload's amount and price (and prefix, symbol and
\* that bump) stored.
C12_PayloadStored ==
    [][(IsInitializeAirdrop /\ result = "Ok")' =>
        /\ Count(trace', "process_initialize_airdrop_logic") = 1
        /\ ledger' = ConfigLogicOnPayload(ledger)'.ledger
        /\ LET record == ledger'[accounts'[1].key].data
           IN  /\ record.kind = "config" /\ record.is_initialized
               /\ record.airdrop_amount = instruction_data'[2]
               /\ record.metadata_prefix = instruction_data'[3]
               /\ record.symbol = instruction_data'[4]
               /\ record.price = instruction_data'[5]
               /\ record.bump = find_mint_authority(accounts'[1].key).bump
      ]_vars

\* A config initialized with an amount other than the price, under a bump
\* the derivation had to search for.
C12_Witness ==
    /\ IsInitializeAirdrop /\ result = "Ok"
    /\ instruction_data[2] = MaxAmount /\ instruction_data[5] = 1
    /\ ledger[accounts[1].key].data.is_initialized
    /\ ledger[accounts[1].key].data.airdrop_amount = MaxAmount
    /\ ledger[accounts[1].key].data.price = 1
    /\ ledger[accounts[1].key].data.bump < MaxBump

\* The last call was an Initialize-User-Record, with its five accounts, on
\* an account that already held a User record.
OnExistingUserRecord ==
    /\ IsInitializeAirdropUser /\ Len(accounts) >= 5
    /\ accounts[1].data.kind = "user"

\* C13 as stated: once a user record exists, every later
\* Initialize-User-Record on its account is rejected as already initialized
\* and the stored record stays as it was.
C13_AsStated ==
    [][OnExistingUserRecord' =>
        /\ result' = "AccountAlreadyInitialized"
        /\ ledger'[accounts'[1].key].data = ledger[accounts'[1].key].data
      ]_vars

\* C13 amended: a user record appears only through a successful
\* Initialize-User-Record, which leaves its account funded; every later
\* Initialize-User-Record on that account is rejected, changing nothing:
\* as already initialized when the call names the config and user the
\* address derives from, with PdaCheckFailed when it names others.
C13_CreatedOnce ==
    [][/\ \A k \in Keys :
            (ledger'[k].data.kind = "user" /\ ledger[k].data.kind # "user") =>
                /\ IsInitializeAirdropUser' /\ result' = "Ok"
                /\ accounts'[1].key = k
                /\ ledger'[k].lamports > 0
       /\ OnExistingUserRecord' =>
            /\ accounts'[1].lamports > 0
            /\ UserDataDerived' => result' = "AccountAlreadyInitialized"
            /\ ~UserDataDerived' => result' = "PdaCheckFailed"
            /\ ledger' = ledger
      ]_vars

\* The record created for a (config, user) pair is presented again for the
\* same pair.
C13_Witness ==
    /\ OnExistingUserRecord
    /\ accounts[1].data.airdrop = accounts[3].key
    /\ accounts[1].data.user = accounts[2].key
    /\ UserDataDerived
    /\ result = "AccountAlreadyInitialized"
    /\ ledger[accounts[1].key].data = accounts[1].data

\* The account is owned by the program and holds an initialized Config.
ConfigLive(L, k) == L[k].owner = ProgramId /\ ConfigInitialized(L, k)

\* C14: a user record is created only by an Initialize-User-Record naming a
\* config account that, before the call, is owned by the program and holds
\* an initialized Config record; such a config comes about only through a
\* successful Initialize-Config on it; and every user record in the ledger
\* refers to a program-owned, initialized config.
C14_ConfigBeforeUser ==
    [][/\ \A k \in Keys :
            (ledger'[k].data.kind = "user" /\ ledger[k].data.kind # "user") =>
                /\ ledger'[k].data.airdrop = accounts'[3].key
                /\ ConfigLive(ledger, accounts'[3].key)
       /\ \A c \in Keys :
            (ConfigLive(ledger', c) /\ ~ConfigLive(ledger, c)) =>
                /\ IsInitializeAirdrop' /\ result' = "Ok"
                /\ accounts'[1].key = c
       /\ \A k \in Keys :
            ledger'[k].data.kind = "user" =>
                ConfigLive(ledger', ledger'[k].data.airdrop)
      ]_vars

\* A user record has just been created against the config account, which
\* an earlier Initialize-Config had initialized.
C14_Witness ==
    /\ IsInitializeAirdropUser /\ result = "Ok"
    /\ accounts[3].key = Config
    /\ accounts[3].owner = ProgramId /\ accounts[3].data.is_initialized
    /\ accounts[1].data.kind = "empty"
    /\ ledger[accounts[1].key].data.kind = "user"
    /\ ledger[accounts[1].key].data.airdrop = Config
    /\ ConfigLive(ledger, Config)

\* The account as the call saw it, and with its signer flag, its writable
\* flag, its owner, its balance, or all four, changed.
Variants(info) ==
    LET owner == IF info.owner = ProgramId THEN SystemProgramId ELSE ProgramId
        lamports == IF info.lamports = 0 THEN 1 ELSE 0
    IN  {info,
         [info EXCEPT !.is_signer = ~@],
         [info EXCEPT !.is_writable = ~@],
         [info EXCEPT !.owner = owner],
         [info EXCEPT !.lamports = lamports],
         [info EXCEPT !.is_signer = ~@, !.is_writable = ~@, !.owner = owner,
                      !.lamports = lamports]}

\* The account with each owner an account can have.
OwnerVariants(info) ==
    {[info EXCEPT !.owner = o] :
        o \in {SystemProgramId, ProgramId, OtherProgramId}}

\* The call's accounts with the variant at position i; the variant's state
\* shows in every other view of the same account, and in the ledger.
WithVariant(accts, i, v) ==
    [j \in DOMAIN accts |->
        IF j = i THEN v
        ELSE IF accts[j].key = v.key
        THEN [accts[j] EXCEPT !.owner = v.owner, !.lamports = v.lamports]
        ELSE accts[j]]

LedgerWith(L, v) ==
    [L EXCEPT ![v.key].owner = v.owner, ![v.key].lamports = v.lamports]

\* C15: Initialize-Config's outcome (accepted, or which check's error) is
\* the same whatever the signer flag, writable flag, owner and balance of
\* the authority account and of the revenue account; Initialize-User-Record's
\* outcome is the same whatever the owner of the user account.
C15_UncheckedAccounts ==
    [][/\ (IsInitializeAirdrop' /\ Len(accounts') >= 6) =>
            \A va \in Variants(accounts'[2]), vr \in Variants(accounts'[4]) :
                LET accts == WithVariant(WithVariant(accounts', 2, va), 4, vr)
                    L == LedgerWith(LedgerWith(ledger, va), vr)
                    r == process_instruction(ProgramId, accts,
                                             instruction_data', L)
                IN  r.result = result' /\ r.trace = trace'
       /\ (IsInitializeAirdropUser' /\ Len(accounts') >= 5) =>
            \A vu \in OwnerVariants(accounts'[2]) :
                LET accts == WithVariant(accounts', 2, vu)
                    L == LedgerWith(ledger, vu)
                    r == process_instruction(ProgramId, accts,
                                             instruction_data', L)
                IN  r.result = result' /\ r.trace = trace'
      ]_vars

\* Initialize-Config was accepted with an authority that has neither signed
\* nor is writable and a revenue account that has not signed.
C15_Witness ==
    /\ IsInitializeAirdrop /\ Len(accounts) >= 6
    /\ ~accounts[2].is_signer /\ ~accounts[2].is_writable
    /\ ~accounts[4].is_signer
    /\ result = "Ok"

\* C16: Mint-One never returns success and never changes the ledger: with
\* fewer than sixteen accounts it returns NotEnoughAccountKeys, with sixteen
\* or more it aborts at todo!() once the accounts are taken; whatever the
\* config, user record, mint authority and fee payer are, no check is
\* applied to them and nothing is written.
C16_MintOneAborts ==
    [][IsMintOne' =>
        /\ result' # "Ok"
        /\ ledger' = ledger
        /\ Len(accounts') < 16 =>
            /\ result' = "NotEnoughAccountKeys"
            /\ trace' = <<"deserialize_instruction_data", "process_mint_one">>
        /\ Len(accounts') >= 16 =>
            /\ result' = "Panic"
            /\ trace' = <<"deserialize_instruction_data", "process_mint_one",
                          "todo!">>
      ]_vars

\* Mint-One with all its accounts, on a config of another program that is
\* not writable and with a fee payer that has not signed, after the real
\* config was initialized: the call aborts all the same.
C16_Witness ==
    /\ IsMintOne /\ Len(accounts) >= 16
    /\ accounts[1].owner # ProgramId /\ ~accounts[1].is_writable
    /\ ~accounts[14].is_signer
    /\ ConfigInitialized(ledger, Config)
    /\ result = "Panic"

\* The number of accounts the last call's handler takes.
Arity ==
    CASE IsInitializeAirdrop -> 6
      [] IsInitializeAirdropUser -> 5
      [] IsMintOne -> 16
      [] OTHER -> 0

\* C17: a call given more accounts than its handler takes (6, 5, 16) has
\* the outcome of the same call given only the first 6, 5 or 16 of them:
\* the same result, the same checks run, the same ledger afterwards.
C17_TrailingAccountsIgnored ==
    [][(/\ IsInitializeAirdrop' \/ IsInitializeAirdropUser' \/ IsMintOne'
        /\ Len(accounts') > Arity') =>
            LET r == process_instruction(
                        ProgramId, SubSeq(accounts', 1, Arity'),
                        instruction_data', ledger)
            IN  /\ r.result = result'
                /\ r.trace = trace'
                /\ r.ledger = ledger'
      ]_vars

\* Initialize-User-Record created a record although a sixth account, which
\* has not signed, follows the fee payer.
C17_Witness ==
    /\ IsInitializeAirdropUser /\ Len(accounts) = 6
    /\ ~accounts[6].is_signer /\ accounts[6].key # accounts[5].key
    /\ result = "Ok"
    /\ ledger[accounts[1].key].data.kind = "user"

\* The check that logs event e ran in the last call exactly as a check of
\* condition ok with error err: the call stopped at it, with that error,
\* exactly when the condition was false.
Checked(e, ok, err) ==
    e \in Events(trace) =>
        /\ trace[Len(trace)] = e <=> ~ok
        /\ ~ok => result = err

\* Each use of a helper in the last call answered by the flag or owner of
\* the account it was given in this call.
HelpersReadThisCall ==
    /\ (IsInitializeAirdrop /\ Len(accounts) >= 6) =>
        /\ Checked("assert_writeable(airdrop_account)",
                   accounts[1].is_writable, "WriteableRequired")
        /\ Checked("assert_owned_by(airdrop_account)",
                   accounts[1].owner = ProgramId, "IllegalOwner")
        /\ Checked("assert_signer(fee_payer)",
                   accounts[6].is_signer, "SignerRequired")
    /\ (IsInitializeAirdropUser /\ Len(accounts) >= 5) =>
        /\ Checked("assert_writeable(user_data_account)",
                   accounts[1].is_writable, "WriteableRequired")
        /\ Checked("assert_owned_by(airdrop)",
                   accounts[3].owner = ProgramId, "IllegalOwner")
        /\ Checked("assert_writeable(airdrop)",
                   accounts[3].is_writable, "WriteableRequired")
        /\ Checked("assert_signer(fee_payer)",
                   accounts[5].is_signer, "SignerRequired")

\* The helpers' answers on every account the last call was given.
HelpersAnswer ==
    \A i \in 1 .. Len(accounts) :
        /\ assert_signer(accounts[i]) = "Ok" <=> accounts[i].is_signer
        /\ assert_signer(accounts[i]) \in {"Ok", "SignerRequired"}
        /\ assert_writeable(accounts[i]) = "Ok" <=> accounts[i].is_writable
        /\ assert_writeable(accounts[i]) \in {"Ok", "WriteableRequired"}
        /\ \A o \in {ProgramId, SystemProgramId, OtherProgramId} :
            /\ assert_owned_by(accounts[i], o) = "Ok"
                    <=> accounts[i].owner = o
            /\ assert_owned_by(accounts[i], o) \in {"Ok", "IllegalOwner"}

\* The last call stopped at one of the helpers.
StoppedAtHelper ==
    /\ trace # <<>>
    /\ trace[Len(trace)] \in
            {"assert_writeable(airdrop_account)",
             "assert_owned_by(airdrop_account)", "assert_signer(fee_payer)",
             "assert_writeable(user_data_account)",
             "assert_owned_by(airdrop)", "assert_writeable(airdrop)"}

\* C18: assert_signer, assert_writeable and assert_owned_by answer Ok
\* exactly when the signer flag, the writable flag, the owner of the account
\* given is as required, and SignerRequired, WriteableRequired,
\* IllegalOwner otherwise; in every call each answer is that of the flags
\* and owner supplied with this call, whatever earlier calls were given;
\* and a call that stops at a helper leaves the ledger as it was.
C18_HelpersPure ==
    [][/\ HelpersAnswer'
       /\ HelpersReadThisCall'
       /\ StoppedAtHelper' => ledger' = ledger]_vars

\* The config was initialized by an earlier call, in which the fee payer
\* had signed and the config account was writable; now the same accounts
\* come with the fee payer's signature missing, and the call stops at
\* assert_signer.
C18_Witness ==
    /\ IsInitializeAirdrop /\ Len(accounts) >= 6
    /\ accounts[1].key = Config /\ accounts[1].data.is_initialized
    /\ accounts[6].key = FeePayer /\ ~accounts[6].is_signer
    /\ trace[Len(trace)] = "assert_signer(fee_payer)"
    /\ result = "SignerRequired"
    /\ ledger[Config].data = accounts[1].data

====
